---- MODULE Spec2Model ----
(***************************************************************************)
(* A model of screen-ai (src/main.py): the start-up sequence (Config,      *)
(* QApplication, ScreenAI.__init__, UIManager.setup) and the Qt event loop *)
(* that dispatches the Ctrl+Shift+O shortcut (ScreenAI.capture_and_process)*)
(* the pulse timer (UIManager.pulse_circle) and repaints.                  *)
(*                                                                         *)
(* Python values are modelled structurally: a str is a sequence of         *)
(* characters, Optional[x] is None (the empty tuple) or Some(x) (a         *)
(* one-element tuple), and truthiness is computed as Python computes it.   *)
(* capture_and_process runs synchronously on the event-loop thread; it is  *)
(* split at its collaborator calls (pc), and no other event is dispatched  *)
(* while it runs.                                                          *)
(***************************************************************************)
EXTENDS Integers, Sequences, FiniteSets, TLC

VARIABLES
    env,              \* os.environ as read by Config.__init__
    pc,               \* position of the process
    exit_status,      \* None while running, Some(code) once terminated
    shortcut,         \* TRUE once the QShortcut is connected (setup)
    state,            \* ScreenAI.state
    pulse_timer,      \* UIManager.pulse_timer: None or Some("QTimer")
    timers,           \* number of QTimer objects started and not stopped
    pulse_frame,      \* UIManager.pulse_frame
    update_pending,   \* a paint event requested by parent.update() is queued
    screenshot_path,  \* local of capture_and_process
    screen_data,      \* local of capture_and_process
    session,          \* TRUE while a voice session opened by vapi.start lives
    cur,              \* what the running handler did so far (calls, logs, ...)
    prev              \* what the last finished handler run did

vars == <<env, pc, exit_status, shortcut, state, pulse_timer, timers,
          pulse_frame, update_pending, screenshot_path, screen_data, session,
          cur, prev>>

----------------------------------------------------------------------------
(* Bounds of the model *)

\* longest text the Recognizer returns
MaxTextLen == 2
\* number of working directories os.getcwd() can report
NumCwd == 2

(* Program constants *)

\* pulse_frame wraps at 200
PulsePeriod == 200

----------------------------------------------------------------------------
(* Python values *)

None == <<>>
Some(x) == <<x>>

\* bool(v) of an Optional[str] / Optional[path]: None and "" are falsy
Truthy(opt) == opt # None /\ Len(opt[1]) > 0

Alphabet == {"a"}
\* every str of at most MaxTextLen characters, "" included
Texts == UNION {[1..n -> Alphabet] : n \in 0..MaxTextLen}

Cwds == 1..NumCwd
\* os.path.join(os.getcwd(), 'screenshot.jpg'), the cwd being cwd levels deep
ScreenshotPath(cwd) == [k \in 1..cwd |-> "dir"] \o <<"screenshot.jpg">>

\* the values os.getenv gives for a key: unset, set to "", set to a key
EnvValues == {None, Some(<<>>), Some(<<"k">>)}

----------------------------------------------------------------------------
(* The state as one record, so that each method is a function on it *)

Snapshot ==
    [pc |-> pc, exit_status |-> exit_status, shortcut |-> shortcut,
     state |-> state, pulse_timer |-> pulse_timer, timers |-> timers,
     pulse_frame |-> pulse_frame, update_pending |-> update_pending,
     screenshot_path |-> screenshot_path, screen_data |-> screen_data,
     session |-> session,
     cur |-> cur, prev |-> prev]

Apply(s) ==
    /\ pc' = s.pc
    /\ exit_status' = s.exit_status
    /\ shortcut' = s.shortcut
    /\ state' = s.state
    /\ pulse_timer' = s.pulse_timer
    /\ timers' = s.timers
    /\ pulse_frame' = s.pulse_frame
    /\ update_pending' = s.update_pending
    /\ screenshot_path' = s.screenshot_path
    /\ screen_data' = s.screen_data
    /\ session' = s.session
    /\ cur' = s.cur
    /\ prev' = s.prev
    /\ UNCHANGED env

\* an observable event of the running handler
Emit(s, e) == [s EXCEPT !.cur = Append(@, e)]

\* logger.info / logger.error: the message and the value interpolated in it
Log(s, msg, data) == Emit(s, <<"log", <<msg, data>>>>)

\* self.parent.update(): schedule a repaint
ParentUpdate(s) == Emit([s EXCEPT !.update_pending = TRUE], <<"update">>)

----------------------------------------------------------------------------
(* Config (lines 30-51), run at import time, before QApplication exists *)

ConfigVars == <<"openai_api_key", "vapi_api_key">>

\* getattr(self, var) as set by Config.__init__ from the environment
ConfigAttr(e, var) ==
    IF var = "openai_api_key" THEN e.OPENAI_API_KEY ELSE e.VAPI_API_KEY

\* Config.validate: the list missing_vars
MissingVarsFirstOnly(e) ==
    SelectSeq(<<"openai_api_key">>, LAMBDA var : ~Truthy(ConfigAttr(e, var)))
MissingVars(e) ==
    SelectSeq(ConfigVars, LAMBDA var : ~Truthy(ConfigAttr(e, var)))

\* Config.validate.  QMessageBox.critical is called with no QApplication
\* constructed (line 222 has not run): Qt either shows the box, and
\* sys.exit(1) follows, or aborts the process (status 134).
Validate(s, e, aborts) ==
    IF MissingVars(e) # <<>>
    THEN [Log(s, "Missing environment variables: ", MissingVars(e))
            EXCEPT !.pc = "exited",
                   !.exit_status = Some(IF aborts THEN 134 ELSE 1)]
    ELSE [s EXCEPT !.pc = "main"]

----------------------------------------------------------------------------
(* UIManager (lines 134-185) *)

\* UIManager.update_state
UpdateStateQuietWhenNoTimer(s, new_state) ==
    LET s1 == Emit([s EXCEPT !.state = new_state],
                   <<"phase", s.state, new_state>>)
    IN  IF new_state = "talking"
        THEN Log(ParentUpdate([s1 EXCEPT !.pulse_frame = 0,
                                         !.pulse_timer = Some("QTimer"),
                                         !.timers = @ + 1]),
                 "Application state updated to: ", <<new_state>>)
        ELSE IF s1.pulse_timer # None
        THEN Log(ParentUpdate([s1 EXCEPT !.timers = @ - 1,
                                         !.pulse_timer = None]),
                 "Application state updated to: ", <<new_state>>)
        ELSE s1
UpdateStateStopsOnlyOnIdle(s, new_state) ==
    LET s1 == Emit([s EXCEPT !.state = new_state],
                   <<"phase", s.state, new_state>>)
        s2 == IF new_state = "talking"
              THEN [s1 EXCEPT !.pulse_frame = 0,
                              !.pulse_timer = Some("QTimer"),
                              !.timers = @ + 1]
              ELSE IF s1.pulse_timer # None /\ new_state = "idle"
              THEN [s1 EXCEPT !.timers = @ - 1, !.pulse_timer = None]
              ELSE s1
    IN  Log(ParentUpdate(s2), "Application state updated to: ", <<new_state>>)
UpdateState(s, new_state) ==
    LET s1 == Emit([s EXCEPT !.state = new_state],
                   <<"phase", s.state, new_state>>)
        s2 == IF new_state = "talking"
              THEN [s1 EXCEPT !.pulse_frame = 0,
                              !.pulse_timer = Some("QTimer"),
                              !.timers = @ + 1]
              ELSE IF s1.pulse_timer # None
              THEN [s1 EXCEPT !.timers = @ - 1, !.pulse_timer = None]
              ELSE s1
    IN  Log(ParentUpdate(s2), "Application state updated to: ", <<new_state>>)

\* UIManager.pulse_circle
PulseCircleEndsAtWrap(s) ==
    [s EXCEPT !.pulse_frame = (@ + 1) % PulsePeriod, !.update_pending = TRUE,
              !.state = IF (s.pulse_frame + 1) % PulsePeriod = 0
                        THEN "idle" ELSE @]
PulseCircle(s) ==
    [s EXCEPT !.pulse_frame = (@ + 1) % PulsePeriod, !.update_pending = TRUE]

\* ScreenAI.paintEvent / UIManager.paint: draws, reads state and pulse_frame
PaintEvent(s) == [s EXCEPT !.update_pending = FALSE]

\* __main__, ScreenAI.__init__ and UIManager.setup: construct, show, connect
\* the shortcut
MainStart(s) ==
    Log(Log([s EXCEPT !.state = "idle", !.pulse_timer = None,
                      !.pulse_frame = 0, !.update_pending = TRUE,
                      !.shortcut = TRUE, !.pc = "event_loop"],
            "UI setup completed", <<>>),
        "ScreenAI initialized", <<>>)

----------------------------------------------------------------------------
(* The collaborators (lines 53-132).  What the display, the network and   *)
(* the voice SDK do is an input; the methods map every failure to None.   *)

\* ScreenCapture.capture_and_save returns the path, or None on any exception
CaptureOutcomes == {None} \cup {Some(ScreenshotPath(cwd)) : cwd \in Cwds}

\* OCRProcessor.process returns the content of the first choice, or None on
\* a network error, a non-2xx response or a malformed body
ProcessOutcomes == {None} \cup {Some(text) : text \in Texts}

\* ScreenCapture.capture_and_save, its outcome being r
CaptureAndSave(s, r) ==
    LET s1 == Emit(s, <<"capture", r>>)
    IN  IF r # None
        THEN Log(s1, "Screenshot saved to ", r[1])
        ELSE Log(s1, "Error taking screenshot: ", <<>>)

\* OCRProcessor.process(path), its outcome being r
Process(s, path, r) ==
    LET s1 == Emit(s, <<"ocr", path, r>>)
    IN  IF r # None
        THEN Log(s1, "OCR processing completed successfully", <<>>)
        ELSE Log(s1, "Error performing OCR: ", <<>>)

\* VapiManager.start: the assistant_overrides it builds
AssistantOverridesDropLast(data) ==
    [variableValues |->
        [screendata |-> SubSeq(data, 1, Len(data) - 1)]]
AssistantOverrides(data) ==
    [variableValues |-> [screendata |-> data]]

\* VapiManager.start(data); ok is whether self.vapi.start returns, a session
\* being open from then on, or raises
Start(s, data, ok) ==
    Emit(Log([s EXCEPT !.session = @ \/ ok], "Starting Vapi assistant", <<>>),
         <<"vapi", AssistantOverrides(data), ok>>)

\* the session ends in the background (the SDK or the user ends it); start
\* registers no callback, so nothing of the program runs
SessionEnd(s) == [s EXCEPT !.session = FALSE]

----------------------------------------------------------------------------
(* ScreenAI.capture_and_process (lines 203-219), cut at its calls *)

\* lines 203-206: handler entry, update_state('loading')
Enter(s) ==
    UpdateState(
        Log([s EXCEPT !.cur = <<>>, !.screenshot_path = None,
                      !.screen_data = None, !.pc = "capture"],
            "Starting OCR process...", <<>>),
        "loading")

\* lines 207-208 and 217-219: the capture and the branch on its result
AfterCaptureUnchecked(s, r) ==
    [CaptureAndSave(s, r) EXCEPT !.screenshot_path = r, !.pc = "ocr"]
AfterCaptureLeavesLoading(s, r) ==
    LET s1 == [CaptureAndSave(s, r) EXCEPT !.screenshot_path = r]
    IN  IF Truthy(r)
        THEN [s1 EXCEPT !.pc = "ocr"]
        ELSE [Log(s1, "Failed to take screenshot. Unable to proceed.", <<>>)
                EXCEPT !.pc = "return"]
AfterCapture(s, r) ==
    LET s1 == [CaptureAndSave(s, r) EXCEPT !.screenshot_path = r]
    IN  IF Truthy(r)
        THEN [s1 EXCEPT !.pc = "ocr"]
        ELSE [UpdateState(
                 Log(s1, "Failed to take screenshot. Unable to proceed.", <<>>),
                 "idle")
                EXCEPT !.pc = "return"]

\* the argument of process at line 209: the local screenshot_path
ProcessArg(s) == IF s.screenshot_path = None THEN None ELSE s.screenshot_path[1]

\* lines 209-211 and 214-216: the recognition and the branch on its result
AfterProcessUnchecked(s, r) ==
    [UpdateState([Process(s, ProcessArg(s), r) EXCEPT !.screen_data = r],
                 "talking")
        EXCEPT !.pc = "vapi"]
AfterProcessStaysLoading(s, r) ==
    LET s1 == [Process(s, ProcessArg(s), r) EXCEPT !.screen_data = r]
    IN  IF Truthy(r)
        THEN [s1 EXCEPT !.pc = "vapi"]
        ELSE [UpdateState(
                 Log(s1, "OCR failed. Unable to start Vapi.", <<>>), "idle")
                EXCEPT !.pc = "return"]
AfterProcess(s, r) ==
    LET s1 == [Process(s, ProcessArg(s), r) EXCEPT !.screen_data = r]
    IN  IF Truthy(r)
        THEN [UpdateState(s1, "talking") EXCEPT !.pc = "vapi"]
        ELSE [UpdateState(
                 Log(s1, "OCR failed. Unable to start Vapi.", <<>>), "idle")
                EXCEPT !.pc = "return"]

\* lines 212-213: the voice session; an exception of vapi.start is not
\* caught here and leaves the handler
AfterStart(s, ok) ==
    LET s1 == Start(s, s.screen_data[1], ok)
    IN  IF ok
        THEN [Log(s1, "OCR Result:\n", s.screen_data[1]) EXCEPT !.pc = "return"]
        ELSE [s1 EXCEPT !.pc = "raised"]

\* the handler returns to the event loop
Finish(s) == [s EXCEPT !.pc = "event_loop", !.prev = s.cur, !.cur = <<>>]

\* an exception leaves the slot: PyQt prints it and the loop goes on, or
\* (PyQt5 from 5.5 on, no excepthook installed) aborts the process
Propagate(s, survives) ==
    [s EXCEPT !.pc = IF survives THEN "event_loop" ELSE "aborted",
              !.exit_status = IF survives THEN None ELSE Some(134),
              !.session = IF survives THEN @ ELSE FALSE,
              !.prev = s.cur, !.cur = <<>>]

----------------------------------------------------------------------------
(* The state machine *)

Init ==
    /\ env \in [OPENAI_API_KEY : EnvValues, VAPI_API_KEY : EnvValues]
    /\ pc = "config"
    /\ exit_status = None
    /\ shortcut = FALSE
    /\ state = "idle"
    /\ pulse_timer = None
    /\ timers = 0
    /\ pulse_frame = 0
    /\ update_pending = FALSE
    /\ screenshot_path = None
    /\ screen_data = None
    /\ session = FALSE
    /\ cur = <<>>
    /\ prev = <<>>

\* line 51: config = Config()
ConfigInit ==
    /\ pc = "config"
    /\ \E aborts \in BOOLEAN : Apply(Validate(Snapshot, env, aborts))

\* lines 221-224: QApplication, ScreenAI(), app.exec_()
Main ==
    /\ pc = "main"
    /\ Apply(MainStart(Snapshot))

\* the shortcut is activated: the event loop calls capture_and_process
Trigger ==
    /\ pc = "event_loop"
    /\ shortcut
    /\ Apply(Enter(Snapshot))

Capture ==
    /\ pc = "capture"
    /\ \E r \in CaptureOutcomes : Apply(AfterCapture(Snapshot, r))

Recognize ==
    /\ pc = "ocr"
    /\ \E r \in ProcessOutcomes : Apply(AfterProcess(Snapshot, r))

VoiceStart ==
    /\ pc = "vapi"
    /\ \E ok \in BOOLEAN : Apply(AfterStart(Snapshot, ok))

Return ==
    /\ pc = "return"
    /\ Apply(Finish(Snapshot))

Raise ==
    /\ pc = "raised"
    /\ \E survives \in BOOLEAN : Apply(Propagate(Snapshot, survives))

\* a running pulse timer times out
Tick ==
    /\ pc = "event_loop"
    /\ timers > 0
    /\ Apply(PulseCircle(Snapshot))

\* the queued paint event is delivered
Paint ==
    /\ pc = "event_loop"
    /\ update_pending
    /\ Apply(PaintEvent(Snapshot))

\* the voice session is over; it runs on the SDK's own thread, so this can
\* happen while the handler runs too
SessionEnds ==
    /\ pc \notin {"exited", "aborted"}
    /\ session
    /\ Apply(SessionEnd(Snapshot))

Next ==
    \/ ConfigInit
    \/ Main
    \/ Trigger
    \/ Capture
    \/ Recognize
    \/ VoiceStart
    \/ Return
    \/ Raise
    \/ Tick
    \/ Paint
    \/ SessionEnds

Spec == Init /\ [][Next]_vars

\* every collaborator call returns or raises, and the handler then runs on to
\* its end: the steps of a started capture_and_process are taken
\* (at most one of them is enabled at a time: they are told apart by pc)
HandlerStep == Capture \/ Recognize \/ VoiceStart \/ Return \/ Raise

FairSpec == Spec /\ WF_vars(HandlerStep)

----------------------------------------------------------------------------
(* Reading a handler run's events *)

Tagged(t, tag) == SelectSeq(t, LAMBDA e : e[1] = tag)

\* the phase changes of a run, as <<from, to>> pairs
PhaseChanges(t) ==
    LET ch == SelectSeq(t, LAMBDA e : e[1] = "phase" /\ e[2] # e[3])
    IN  [i \in 1..Len(ch) |-> <<ch[i][2], ch[i][3]>>]

EndsIn(t, phase) ==
    /\ PhaseChanges(t) # <<>>
    /\ PhaseChanges(t)[Len(PhaseChanges(t))][2] = phase

Enters(t, phase) ==
    \E i \in 1..Len(PhaseChanges(t)) : PhaseChanges(t)[i][2] = phase

CaptureFailed(t) == \E i \in 1..Len(t) : t[i][1] = "capture" /\ t[i][2] = None
ProcessFailed(t) == \E i \in 1..Len(t) : t[i][1] = "ocr" /\ t[i][3] = None
StartFailed(t) == \E i \in 1..Len(t) : t[i][1] = "vapi" /\ ~t[i][3]

\* the results the collaborators gave in a run, in call order
Outcomes(t) ==
    LET calls == SelectSeq(t, LAMBDA e : e[1] \in {"capture", "ocr", "vapi"})
    IN  [i \in 1..Len(calls) |->
            IF calls[i][1] = "capture" THEN calls[i][2] ELSE calls[i][3]]

\* the handler has executed its last statement, or an exception is leaving it
CycleOver == pc \in {"return", "raised"}

----------------------------------------------------------------------------
(* C1 *)

AllowedChanges ==
    {<<"idle", "loading">>, <<"loading", "talking">>, <<"loading", "idle">>}

\* C1: every change of Phase is Idle->Loading, Loading->Talking or
\* Loading->Idle.
C1_PhaseOrder ==
    [][state' # state => <<state, state'>> \in AllowedChanges]_vars

(* C2 *)

\* C2: a trigger that arrives while Phase is not Idle changes nothing: Phase
\* stays and no cycle (hence no collaborator call) is started.
C2_TriggerIgnoredUnlessIdle ==
    [][(Trigger /\ state # "idle") => (state' = state /\ pc' = "event_loop")]_vars

(* C3 *)

\* C3: when VapiManager.start fails, the failure is caught inside
\* capture_and_process (the handler reaches its end normally) and Phase is
\* back at Idle.
C3_VoiceFailureRevertsToIdle ==
    StartFailed(cur) => (pc = "return" /\ state = "idle")

(* C4 *)

C4Run(t) ==
    CaptureFailed(t) =>
        /\ Tagged(t, "ocr") = <<>>
        /\ Tagged(t, "vapi") = <<>>
        /\ EndsIn(t, "idle")

\* C4: in a cycle whose capture failed nothing is raised out of the handler,
\* neither OCRProcessor.process nor VapiManager.start is called, and Phase is
\* Idle at the end, whatever phase the cycle started from.
C4_CaptureFailureAborts ==
    /\ C4Run(cur)
    /\ C4Run(prev)
    /\ CaptureFailed(cur) => (pc = "return" /\ state = "idle")

\* a cycle that started in Talking and whose capture failed has ended
C4_Witness ==
    /\ pc = "return"
    /\ CaptureFailed(cur)
    /\ PhaseChanges(cur)[1] = <<"talking", "loading">>

(* C5 *)

C5Run(t) ==
    ProcessFailed(t) =>
        /\ Tagged(t, "vapi") = <<>>
        /\ ~Enters(t, "talking")
        /\ EndsIn(t, "idle")

\* C5: in a cycle whose recognition failed (None) VapiManager.start is not
\* called, Phase never becomes Talking, and Phase is Idle at the end.
C5_RecognizerFailureAborts ==
    /\ C5Run(cur)
    /\ C5Run(prev)
    /\ ProcessFailed(cur) => (pc = "return" /\ state = "idle")

\* a cycle that started in Talking and whose recognition failed has ended
C5_Witness ==
    /\ pc = "return"
    /\ ProcessFailed(cur)
    /\ PhaseChanges(cur)[1] = <<"talking", "loading">>

(* C6 *)

\* the run t, whose recognition returned a text accepted by Accept, went
\* Loading->Talking and (once past the call site) started the voice session
\* with that text
C6Run(t, past, Accept(_)) ==
    \A i \in 1..Len(t) :
        (t[i][1] = "ocr" /\ t[i][3] # None /\ Accept(t[i][3][1])) =>
            /\ \E j \in 1..Len(PhaseChanges(t)) :
                  PhaseChanges(t)[j] = <<"loading", "talking">>
            /\ past =>
                  \E j \in (i + 1)..Len(t) :
                      /\ t[j][1] = "vapi"
                      /\ t[j][2].variableValues.screendata = t[i][3][1]

AnyText(text) == TRUE
NonEmptyText(text) == Len(text) > 0

\* C6: whenever the Recognizer returns a text, the empty text
\* included, Phase goes Loading->Talking and VapiManager.start is called with
\* that text.
C6_SuccessStartsVoice ==
    /\ C6Run(cur, CycleOver, AnyText)
    /\ C6Run(prev, prev # <<>>, AnyText)

\* C6, the case the code implements: whenever the Recognizer returns a
\* non-empty text, Phase goes Loading->Talking and VapiManager.start is
\* called with that text.
C6_NonEmptySuccessStartsVoice ==
    /\ C6Run(cur, CycleOver, NonEmptyText)
    /\ C6Run(prev, prev # <<>>, NonEmptyText)

\* a cycle whose recognition returned a one-character text has called start
C6_Witness ==
    /\ CycleOver
    /\ \E i \in 1..Len(cur) :
          cur[i][1] = "ocr" /\ cur[i][3] # None /\ Len(cur[i][3][1]) = 1
    /\ Tagged(cur, "vapi") # <<>>

(* C7 *)

C7Run(t) ==
    \A k \in 1..Len(t) :
        t[k][1] = "vapi" =>
            /\ Len(Tagged(t, "capture")) = 1
            /\ Len(Tagged(t, "ocr")) = 1
            /\ Len(Tagged(t, "vapi")) = 1
            /\ Tagged(t, "capture")[1][2] = Some(Tagged(t, "ocr")[1][2])
            /\ Tagged(t, "ocr")[1][3] = Some(t[k][2].variableValues.screendata)

\* C7: the 'screendata' value VapiManager.start passes on is exactly the
\* text OCRProcessor.process returned in the same cycle, for the path
\* capture_and_save returned in the same cycle.
C7_ContextIsThisCyclesText ==
    /\ C7Run(cur)
    /\ C7Run(prev)

\* start was called in two cycles in a row, with different texts and paths
C7_Witness ==
    /\ Tagged(cur, "vapi") # <<>>
    /\ Tagged(prev, "vapi") # <<>>
    /\ Tagged(cur, "vapi")[1][2] # Tagged(prev, "vapi")[1][2]
    /\ Tagged(cur, "ocr")[1][2] # Tagged(prev, "ocr")[1][2]

(* C8 *)

Missing(v) == v = None \/ v = Some(<<>>)
KeyMissing == Missing(env.OPENAI_API_KEY) \/ Missing(env.VAPI_API_KEY)
NoCalls(t) ==
    Tagged(t, "capture") = <<>> /\ Tagged(t, "ocr") = <<>> /\ Tagged(t, "vapi") = <<>>

\* C8: with OPENAI_API_KEY or VAPI_API_KEY missing the process ends in
\* Config.validate with a non-zero status; the shortcut is never connected
\* and no collaborator is ever called.
C8_MissingKeyIsFatal ==
    KeyMissing =>
        /\ pc \in {"config", "exited"}
        /\ ~shortcut
        /\ NoCalls(cur) /\ NoCalls(prev)
        /\ pc = "exited" => (exit_status # None /\ exit_status[1] # 0)

\* only VAPI_API_KEY is missing and the process has terminated
C8_Witness ==
    /\ ~Missing(env.OPENAI_API_KEY)
    /\ Missing(env.VAPI_API_KEY)
    /\ pc = "exited"

(* C9 *)

\* C9: two cycles in a row with the same collaborator outcomes do the same
\* things: the same Phase changes, calls, arguments, redraws and log lines.
C9_CyclesIdentical ==
    (CycleOver /\ prev # <<>> /\ Outcomes(cur) = Outcomes(prev)) => cur = prev

(* C10 *)

\* C10: every step that changes Phase does so through update_state, which
\* ends by requesting a redraw and logging the new phase.
C10_ChangeNotifiesAndLogs ==
    [][state' # state =>
        LET n == Len(cur')
        IN  /\ n >= 3
            /\ cur'[n - 2] = <<"phase", state, state'>>
            /\ cur'[n - 1] = <<"update">>
            /\ cur'[n] = <<"log", <<"Application state updated to: ", <<state'>>>>>>
            /\ update_pending']_vars

\* a cycle went Idle->Loading->Idle while no pulse timer was held
C10_Witness ==
    /\ pc = "return"
    /\ PhaseChanges(cur) = <<<<"idle", "loading">>, <<"loading", "idle">>>>
    /\ update_pending

(* C11 *)

\* the phase in force when event i of run t happened
PhaseAt(t, i) ==
    LET before == {j \in 1..(i - 1) : t[j][1] = "phase"}
    IN  IF before = {} THEN "unknown"
        ELSE t[CHOOSE j \in before : \A k \in before : k <= j][3]

C11Run(t, pastCapture) ==
    /\ Len(Tagged(t, "capture")) <= 1
    /\ Len(Tagged(t, "ocr")) <= 1
    /\ Len(Tagged(t, "vapi")) <= 1
    /\ pastCapture => Len(Tagged(t, "capture")) = 1
    /\ \A i \in 1..Len(t) :
        /\ t[i][1] = "capture" => PhaseAt(t, i) = "loading"
        /\ t[i][1] = "ocr" =>
              /\ PhaseAt(t, i) = "loading"
              /\ \E j \in 1..(i - 1) : t[j][1] = "capture" /\ t[j][2] # None
        /\ t[i][1] = "vapi" =>
              /\ PhaseAt(t, i) = "talking"
              /\ \E j \in 1..(i - 1) : t[j][1] = "ocr" /\ t[j][3] # None

\* C11: in a cycle the collaborators are called in the order Capturer,
\* Recognizer, VoiceSession, each at most once: the Capturer exactly once and
\* in Loading; the Recognizer only after a successful capture and in Loading;
\* VapiManager.start only after a successful recognition and in Talking.
C11_CallOrder ==
    /\ C11Run(cur, pc \in {"ocr", "vapi", "return", "raised"})
    /\ C11Run(prev, prev # <<>>)

\* a cycle that called all three collaborators is over
C11_Witness ==
    /\ CycleOver
    /\ Len(Tagged(cur, "capture")) = 1
    /\ Len(Tagged(cur, "ocr")) = 1
    /\ Len(Tagged(cur, "vapi")) = 1

(* C12 *)

\* C12: Phase leaves Talking only by a new trigger, which takes it to
\* Loading, never directly to Idle: timer ticks, repaints, the voice session
\* ending, the handler returning or raising all leave it at Talking.
C12_TalkingStays ==
    [][(state = "talking" /\ state' # "talking") =>
          (Trigger /\ state' = "loading")]_vars

\* in Talking the timer has ticked and the voice session has already ended
C12_Witness ==
    /\ pc = "event_loop"
    /\ state = "talking"
    /\ pulse_frame > 0
    /\ ~session
    /\ ~update_pending

(* C13 *)

\* C13: while the process runs, a pulse timer is held exactly when Phase is
\* Talking, the held timer is the only one running, and no timer runs
\* unheld.
C13_TimerMatchesPhase ==
    pc \notin {"exited", "aborted"} =>
        /\ (pulse_timer # None) <=> (state = "talking")
        /\ timers = IF pulse_timer # None THEN 1 ELSE 0

\* a second cycle in a row has reached Talking with one timer running
C13_Witness ==
    /\ state = "talking"
    /\ timers = 1
    /\ Enters(prev, "talking")
    /\ pc = "event_loop"
    /\ pulse_frame > 0

(* C14 *)

Executing == pc \in {"capture", "ocr", "vapi", "return", "raised"}

\* C14: Loading is left again by every cycle whose collaborator calls come
\* back, and Phase is Idle or Talking whenever capture_and_process is not
\* executing, also after a start that raised.
C14_LoadingIsTransient ==
    /\ [](~Executing => state \in {"idle", "talking"})
    /\ (state = "loading") ~> (state # "loading")

\* the handler was left by an exception of start and the loop goes on
C14_Witness ==
    /\ pc = "event_loop"
    /\ StartFailed(prev)
    /\ state = "talking"

====
